---- MODULE Spec2Model ----
(***************************************************************************)
(* A model of wanikani_api/api.py: the RateLimiter, the UserHandle fetch   *)
(* engine (_complex_request, _ids_updated_after_request, get_subjects,     *)
(* _do_requests), the write-through operations and the local store.        *)
(*                                                                         *)
(* Time is counted in whole seconds.  The remote API and the HTTP          *)
(* transport are the environment: every response the remote can give to a  *)
(* request is a nondeterministic choice.                                   *)
(***************************************************************************)
EXTENDS Integers, Sequences, FiniteSets, TLC

VARIABLES
    clock,      \* datetime.now(), in seconds
    requests,   \* RateLimiter.requests: the deque of recorded timestamps
    docs,       \* resource documents of the user's collection (_personal_cache)
    subjects,   \* documents of the shared "subjects" collection (_subject_cache)
    wms,        \* the "url_update" documents of the user's collection
    etags,      \* the documents of the "ETag" collection (_etag_db)
    pc,         \* "idle", or the loop a running operation is in
    call,       \* the locals of the running _do_requests / get_subjects
    ret,        \* how the last operation ended and what it gave the caller
    hist,       \* what the running (or last) operation did: a record of its trace
    users,      \* the documents of the "users" collection
    sent,       \* the HTTP requests put on the wire: the last one, the last times
    run,        \* the run explored: operations and ticks left, the remote's kind
    rlLog,      \* the direct calls of RateLimiter.can_request and their results
    handles     \* per token, the _id of the _user of the UserHandle built with it

vars == <<clock, requests, docs, subjects, wms, etags, users, pc, call, ret, hist, sent, run, rlLog, handles>>

(***************************************************************************)
(* Bounds of the model                                                     *)
(***************************************************************************)
MaxClock == 125
MaxClockRL == 75
MaxCalls == 5
MaxId == 2
MaxUpd == 1
MaxPages == 2
MaxPageLen == 1
MaxDocs == 3
MaxEtags == 3
MaxTag == 1
MaxOps == 2
MaxSyncs == 4
MaxTicks == 1
MaxBuilds == 3
MaxQueries == 1
MaxGiven == 2
MaxWalks == 3

(***************************************************************************)
(* Program constants                                                       *)
(***************************************************************************)
Window == 60
Limit == 3

None == -1
Uid == "u1"
Token == "t1"
Token2 == "t2"
Tokens == {Token, Token2}
NoUser == "none"
NoUid == ""

Ids == 1 .. MaxId
Upds == 1 .. MaxUpd

(***************************************************************************)
(* RateLimiter                                                             *)
(***************************************************************************)
\* the loop below cut to a single test (an `if` for the `while`)
DropOldOnce(q, now) ==
    IF q # <<>> /\ now - Head(q) > Window THEN Tail(q) ELSE q

RECURSIVE DropOld(_, _)
\* the while loop of can_request: popleft while the front is older than a minute
DropOld(q, now) ==
    IF q # <<>> /\ now - Head(q) > Window THEN DropOld(Tail(q), now) ELSE q

\* can_request: [ok |-> the result, q |-> the deque afterwards]
CanRequest(q, now) ==
    LET d == DropOld(q, now) IN
    IF Len(d) >= Limit THEN [ok |-> FALSE, q |-> d]
    ELSE [ok |-> TRUE, q |-> Append(d, now)]

\* a sleep that does not end within the time observed
SleepNeverEnds(q, now) == [q |-> q, now |-> MaxClock + 1]

\* sleep_until_can_request: [q |-> the deque, now |-> the clock when it returns]
SleepUntilCanRequest(q, now) ==
    LET r == CanRequest(q, now) IN
    IF r.ok THEN [q |-> r.q, now |-> now]
    ELSE [q |-> r.q, now |-> now + ((Head(r.q) + Window) - now)]

\* `if not can_request(): sleep_until_can_request()` of the fetch loops
AcquireOrSleep(q, now) ==
    LET r == CanRequest(q, now) IN
    IF r.ok THEN [q |-> r.q, now |-> now]
    ELSE SleepUntilCanRequest(r.q, now)

(***************************************************************************)
(* The local document store                                                *)
(***************************************************************************)
\* A resource document: object, id, data_updated_at (upd) and whether its
\* date fields are still wire strings ("raw") or datetimes ("parsed").
NoDoc == [object |-> "none", id |-> None, upd |-> None, dates |-> "raw"]

Pred(op, args) == [op |-> op, args |-> args]

SeqSet(s) == {s[i] : i \in DOMAIN s}

\* one field of a filter document against one stored document
MatchField(d, k, p) ==
    CASE k = "id" /\ p.op = "in" -> d.id \in SeqSet(p.args)
      [] k = "id" /\ p.op = "eq" -> d.id = p.args[1]
      [] k = "data_updated_at" /\ p.op = "gte" ->
            d.dates = "parsed" /\ d.upd >= p.args[1]
      [] OTHER -> p.op = "is_null"   \* a field the document does not hold

\* a filter document: the accepted values of "object" and the other fields
Matches(d, flt) ==
    /\ d.object \in flt.object
    /\ \A k \in DOMAIN flt.f : MatchField(d, k, flt.f[k])

NoFields == [k \in {} |-> Pred("", <<>>)]
SetField(f, k, p) == [x \in (DOMAIN f) \cup {k} |-> IF x = k THEN p ELSE f[x]]

KeyFilter(type, id) == [object |-> {type}, f |-> SetField(NoFields, "id", Pred("eq", <<id>>))]
ObjectFilter(type) == [object |-> {type}, f |-> NoFields]

\* collection.find(filter): the matching documents, in collection order
Find(coll, flt) == SelectSeq(coll, LAMBDA d : Matches(d, flt))

\* collection.find_one(filter): the first match, or None
FindOne(coll, flt) ==
    LET m == Find(coll, flt) IN IF m = <<>> THEN NoDoc ELSE Head(m)

RECURSIVE ReplaceFirst(_, _, _)
ReplaceFirst(coll, flt, d) ==
    IF coll = <<>> THEN <<>>
    ELSE IF Matches(Head(coll), flt) THEN <<d>> \o Tail(coll)
    ELSE <<Head(coll)>> \o ReplaceFirst(Tail(coll), flt, d)

\* collection.update_one(filter, {"$set": d}, upsert=upsert)
UpdateOne(coll, flt, d, upsert) ==
    IF Find(coll, flt) # <<>> THEN ReplaceFirst(coll, flt, d)
    ELSE IF upsert THEN Append(coll, d) ELSE coll

\* collection.insert_one(d)
InsertOne(coll, d) == Append(coll, d)

\* _convert_dates: data_updated_at and the *_at fields become datetimes
ConvertDates(item) == [item EXCEPT !.dates = "parsed"]

\* the upsert of one fetched item, lines 662-665 (and 656-659)
UpsertItem(coll, type, item) ==
    UpdateOne(coll, KeyFilter(type, item.id), ConvertDates(item), TRUE)

\* the loop below left after its first item
UpsertFirst(coll, type, items) ==
    IF items = <<>> THEN coll ELSE UpsertItem(coll, type, Head(items))

RECURSIVE UpsertAll(_, _, _)
UpsertAll(coll, type, items) ==
    IF items = <<>> THEN coll
    ELSE UpsertAll(UpsertItem(coll, type, Head(items)), type, Tail(items))

\* get_subjects, lines 389-393: the key is the item's own object and id
RECURSIVE UpsertEach(_, _)
UpsertEach(coll, items) ==
    IF items = <<>> THEN coll
    ELSE UpsertEach(UpsertItem(coll, Head(items).object, Head(items)), Tail(items))

\* the watermark write of lines 667-674: the filter is {"object": "url_update"}
WriteWatermark(w, url, now) ==
    LET rec == [url |-> url, date |-> now] IN
    IF w = <<>> THEN <<rec>> ELSE <<rec>> \o Tail(w)

\* find_one({"object": "url_update", "url": url})
FindWatermarks(w, url) == SelectSeq(w, LAMBDA r : r.url = url)

\* _get_etag_for_url: is a validator stored for (uid, url)?
HasEtag(e, uid, url) == \E r \in e : r.uid = uid /\ r.url = url

\* a record written whatever headers the response has
SetEtagAnyway(e, uid, url, lm, etag) ==
    {r \in e : ~(r.uid = uid /\ r.url = url)}
        \cup {[uid |-> uid, url |-> url, lm |-> lm, etag |-> etag]}

\* _set_etag: upsert under (uid, url) when both headers are there
SetEtag(e, uid, url, lm, etag) ==
    IF lm = None \/ etag = None THEN e
    ELSE {r \in e : ~(r.uid = uid /\ r.url = url)}
            \cup {[uid |-> uid, url |-> url, lm |-> lm, etag |-> etag]}

\* get_subjects, line 346: find_one({"url": url}) whatever the uid
HasEtagAnyUser(e, url) == \E r \in e : r.url = url

(***************************************************************************)
(* Query compilation                                                       *)
(***************************************************************************)
\* A keyword argument: its name p, the Python type k of its value
\* ("none", "int", "list", "bool", "date", "datestr", "str") and the value v
\* as a sequence of integers (a bool is <<0>> or <<1>>, a date its seconds).
Arg(p, k, v) == [p |-> p, k |-> k, v |-> v]

\* A query-string fragment: k is "flag" for a bare name, else how the value
\* is written ("list": comma-joined, "bool": true/false, "date": quoted ISO).
Frag(p, k, v) == [p |-> p, k |-> k, v |-> v]

\* A request URL: https://api.wanikani.com/v2/<type>s[/<item>][?<q>], and the
\* page of the remote's result it addresses (the remote's next_url cursor).
Url(type, item, q) == [type |-> type, item |-> item, q |-> q, page |-> 1]

\* f"{base_url}{'?' if url_params else ''}{params_string}"
WithParams(base, url_params) == [base EXCEPT !.q = url_params]

DateParams == {"available_after", "available_before", "updated_after"}
PercentParams == {"percentages_greater_than", "percentages_less_than"}

\* param[0:-1]
DropLast(p) ==
    CASE p = "srs_stages" -> "srs_stage"
      [] p = "subject_ids" -> "subject_id"
      [] p = "subject_types" -> "subject_type"
      [] p = "assignment_ids" -> "assignment_id"
      [] p = "levels" -> "level"
      [] OTHER -> p

HasKey(kw, p) == \E i \in DOMAIN kw : kw[i].p = p
\* kwargs[p], as <<value>>, <<None>> for a None value
KwVal(kw, p) ==
    LET a == kw[CHOOSE i \in DOMAIN kw : kw[i].p = p] IN
    IF a.k = "none" THEN <<None>> ELSE a.v

\* one iteration of the loop of _parse_query_parameters, lines 681-743
ParseOne(acc, a, kw, is_assignment, now) ==
    LET up == acc.url_params
        f  == acc.f
    IN
    IF a.k = "none" THEN acc
    ELSE IF a.p = "immediately_available_for_lessons" THEN
        [url_params |-> Append(up, Frag(a.p, "flag", <<>>)),
         f |-> SetField(SetField(f, "data.unlocked_at", Pred("lte", <<now>>)),
                        "data.started_at", Pred("is_null", <<>>))]
    ELSE IF a.p = "immediately_available_for_review" THEN
        [url_params |-> Append(up, Frag(a.p, "flag", <<>>)),
         f |-> SetField(f, "data.available_at", Pred("lte", <<now>>))]
    ELSE IF a.p = "in_review" THEN
        [url_params |-> Append(up, Frag(a.p, "flag", <<>>)),
         f |-> SetField(f, "data.available_at", Pred("ne_null", <<>>))]
    ELSE IF a.p \in DateParams THEN
        [url_params |-> Append(up, Frag(a.p, "date", a.v)),
         f |-> IF a.p = "updated_after"
                 THEN SetField(f, "data_updated_at", Pred("gte", a.v))
               ELSE IF HasKey(kw, "available_before") /\ HasKey(kw, "updated_after")
                 THEN SetField(f, "data.available_at",
                               Pred("gte_lte", KwVal(kw, "available_after")
                                               \o KwVal(kw, "available_before")))
               ELSE IF a.p = "available_after"
                 THEN SetField(f, "data.available_at", Pred("gte", a.v))
               ELSE SetField(f, "data.available_at", Pred("lte", a.v))]
    ELSE IF a.p \in PercentParams THEN
        [url_params |-> up,
         f |-> IF HasKey(kw, "percentages_greater_than")
                    /\ HasKey(kw, "percentages_less_than")
                 THEN SetField(f, "data.percentage_correct",
                               Pred("gt_lt", KwVal(kw, "percentages_greater_than")
                                             \o KwVal(kw, "percentages_less_than")))
               ELSE IF a.p = "percentages_less_than"
                 THEN SetField(f, "data.percentage_correct", Pred("lt", a.v))
               ELSE SetField(f, "data.percentage_correct", Pred("gt", a.v))]
    ELSE IF a.k = "bool" THEN
        [url_params |-> Append(up, Frag(a.p, "bool", a.v)),
         f |-> IF is_assignment
                 THEN SetField(f, "data." \o a.p \o "_at",
                               IF a.v = <<1>> THEN Pred("ne_null", <<>>)
                               ELSE Pred("is_null", <<>>))
               ELSE SetField(f, "data." \o a.p, Pred("eq", a.v))]
    ELSE
        \* a str or an int has become the one-element list [value]
        [url_params |-> Append(up, Frag(a.p, "list", a.v)),
         f |-> IF a.p = "ids" THEN SetField(f, "id", Pred("in", a.v))
               ELSE IF a.p # "levels"
                 THEN SetField(f, "data." \o DropLast(a.p), Pred("in", a.v))
               ELSE f]

RECURSIVE ParseFrom(_, _, _, _, _)
ParseFrom(acc, i, kw, is_assignment, now) ==
    IF i > Len(kw) THEN acc
    ELSE ParseFrom(ParseOne(acc, kw[i], kw, is_assignment, now), i + 1, kw,
                   is_assignment, now)

\* _parse_query_parameters(url_params=[], filter_params={"object": ...}, ...)
ParseQueryParameters(kw, is_assignment, now) ==
    ParseFrom([url_params |-> <<>>, f |-> NoFields], 1, kw, is_assignment, now)

\* "p" in kwargs and kwargs["p"] is not None
Given(kw, p) == \E i \in DOMAIN kw : kw[i].p = p /\ kw[i].k # "none"

\* lines 598-603
CanUseCache(kw) ==
    /\ ~Given(kw, "levels")
    /\ ~Given(kw, "immediately_available_for_lessons")
    /\ ~Given(kw, "immediately_available_for_review")
    /\ ~Given(kw, "in_review")

\* line 590: "ids" in kwargs and type(kwargs["ids"]) is int and len(url_params) == 1
IsSingular(kw, url_params) ==
    /\ \E i \in DOMAIN kw : kw[i].p = "ids" /\ kw[i].k = "int"
    /\ Len(url_params) = 1

(***************************************************************************)
(* The remote API and the transport                                        *)
(***************************************************************************)
ErrStatuses == {401, 403, 429, 500}
Tags == 1 .. MaxTag

\* A wire item: a resource as the remote serialises it (dates are strings).
Item(type, id, upd) == [object |-> type, id |-> id, upd |-> upd, dates |-> "raw"]

Resp(kind, status, lm, etag, paged, items, more) ==
    [kind |-> kind, status |-> status, lm |-> lm, etag |-> etag,
     paged |-> paged, items |-> items, more |-> more]

\* the ids a list URL asks for
AskedIds(url) ==
    IF \E i \in DOMAIN url.q : url.q[i].p = "ids"
    THEN SeqSet(url.q[CHOOSE i \in DOMAIN url.q : url.q[i].p = "ids"].v) \cap Ids
    ELSE Ids

\* the pages the remote may serve for a list URL: up to MaxPageLen items
Pages(objects, url) ==
    UNION {[1 .. n -> {Item(o, i, u) : o \in objects, i \in AskedIds(url), u \in Upds}]
            : n \in 0 .. MaxPageLen}

\* the response headers: Last-Modified and ETag, each there or not
Headers == {[lm |-> v, etag |-> v] : v \in Tags}
            \cup {[lm |-> 1, etag |-> None], [lm |-> None, etag |-> 1],
                  [lm |-> None, etag |-> None]}

Failures == {Resp("transport", 0, None, None, FALSE, <<>>, FALSE)}
                \cup {Resp("http", s, None, None, FALSE, <<>>, FALSE) : s \in ErrStatuses}

\* every answer to a GET: a transport failure, an error status, 304 to a
\* conditional request, or 200 with a page (list URL) or one resource
AllGetResponses(objects, url, cond) ==
    Failures
    \cup (IF cond THEN {Resp("http", 304, None, None, FALSE, <<>>, FALSE)} ELSE {})
    \cup (IF url.item = None
          THEN {Resp("http", 200, h.lm, h.etag, TRUE, pg, more) :
                    h \in Headers, pg \in Pages(objects, url),
                    more \in {m \in BOOLEAN : m => url.page < MaxPages}}
          ELSE {Resp("http", 200, h.lm, h.etag, FALSE, <<Item(o, url.item, u)>>, FALSE) :
                    h \in Headers, o \in objects, u \in Upds})

\* A "steady" remote never fails and sends both validators or none.
GetResponses(objects, url, cond) ==
    IF run.remote = "steady"
    THEN {r \in AllGetResponses(objects, url, cond) :
            r.kind = "http" /\ r.status < 400 /\ r.lm = r.etag}
    ELSE AllGetResponses(objects, url, cond)

\* a walk that asks for the same page again
SameUrl(url) == url

\* url = data["pages"]["next_url"], line 654: the remote's cursor to the next page
NextUrl(url) == [url EXCEPT !.page = @ + 1]

NoUrl == [type |-> "", item |-> None, q |-> <<>>, page |-> 0]

(***************************************************************************)
(* Errors                                                                  *)
(***************************************************************************)
\* _raise_error(request): has_status is whether the argument is the response
\* (request.status exists) or the bare integer status (it does not)
RaiseError(has_status, status) ==
    IF ~has_status THEN [exc |-> "AttributeError", code |-> None]
    ELSE IF status = 429 THEN [exc |-> "WanikaniRateLimitError", code |-> None]
    ELSE IF status = 403 \/ status = 401
      THEN [exc |-> "WanikaniInvalidTokenError", code |-> None]
    ELSE [exc |-> "WanikaniRequestError", code |-> status]

(***************************************************************************)
(* Results and traces                                                      *)
(***************************************************************************)
\* what the caller gets: None, one document, a list, or a cursor (whose
\* documents are those it yields when the caller reads it)
Val(t, ds) == [t |-> t, docs |-> ds]
NoVal == Val("none", <<>>)
DocVal(d) == IF d = NoDoc THEN NoVal ELSE Val("doc", <<d>>)

Ret(op, kind, how, exc, code, status, val) ==
    [op |-> op, kind |-> kind, how |-> how, exc |-> exc, code |-> code,
     status |-> status, val |-> val]
NoRet == Ret("", "none", "", "", None, None, NoVal)
Raise(op, e, status) == Ret(op, "raise", "", e.exc, e.code, status, NoVal)
HTTPError == [exc |-> "HTTPError", code |-> None]
RateLimitError == [exc |-> "WanikaniRateLimitError", code |-> None]

\* the trace of an operation: the URLs it requested, the pages the remote
\* served and whether the last one had a next_url, the items it upserted,
\* its watermark writes, the collections it changed, the local result it
\* computed before its first request, and the arguments it was called with
NoHist == [gets |-> <<>>, served |-> <<>>, more |-> FALSE, upserted |-> <<>>,
           wmWrites |-> 0, dirty |-> {}, local |-> NoVal, args |-> <<>>,
           got |-> [kind |-> "", status |-> None, lm |-> None, etag |-> None]]

\* what the operation saw of its last response: request.status and the two
\* validator headers, or that the transport raised
Got(resp) ==
    [kind |-> resp.kind, status |-> resp.status, lm |-> resp.lm, etag |-> resp.etag]

\* the collections a step changed
Dirty(d1, d2, s1, s2, w1, w2, e1, e2) ==
    (IF d1 # d2 THEN {"docs"} ELSE {}) \cup (IF s1 # s2 THEN {"subjects"} ELSE {})
    \cup (IF w1 # w2 THEN {"wms"} ELSE {}) \cup (IF e1 # e2 THEN {"etags"} ELSE {})

Send(method, url, checked, cond) ==
    [method |-> method, url |-> url, checked |-> checked, cond |-> cond]
NoSend == Send("", NoUrl, FALSE, FALSE)

\* the wire log after one more request at time t
Sent(s, t, rec) ==
    [last |-> rec,
     times |-> IF Len(s.times) < Limit + 1 THEN Append(s.times, t)
               ELSE Append(Tail(s.times), t)]

NoCall == [op |-> "", type |-> "", url |-> NoUrl, url_wo |-> NoUrl, data_out |-> <<>>,
           cached |-> "none", cached_doc |-> NoDoc, filter |-> ObjectFilter(""),
           is_singular |-> FALSE, can_use_cache |-> FALSE]

\* the value of `cached`: None, the find_one document, or the find cursor read
\* against the collection as it is when the caller gets it
CachedVal(c, coll) ==
    CASE c.cached = "doc" -> DocVal(c.cached_doc)
      [] c.cached = "cursor" -> Val("cursor", Find(coll, c.filter))
      [] OTHER -> NoVal

(***************************************************************************)
(* The state after construction: UserHandle(Token) found its identity in   *)
(* the users collection (lines 79-81); nothing has been fetched yet.  The  *)
(* rate limiter is a class attribute (line 71) shared by every handle of   *)
(* the process: other handles may have used up to all of its slots.        *)
(***************************************************************************)
InitWith(ops, ticks, remote, used) ==
    /\ clock = 0
    /\ requests \in {[i \in 1 .. n |-> 0] : n \in used}
    /\ docs = <<>>
    /\ subjects = <<>>
    /\ wms = <<>>
    /\ etags = {}
    /\ users = <<[id |-> Uid, tokens |-> <<Token>>, upd |-> 1]>>
    /\ pc = "idle"
    /\ call = NoCall
    /\ ret = NoRet
    /\ hist = NoHist
    /\ sent = [last |-> NoSend, times |-> <<>>]
    /\ run = [ops |-> ops, ticks |-> ticks, remote |-> remote]
    /\ rlLog = <<>>
    /\ handles = [t \in Tokens |-> IF t = Token THEN Uid ELSE NoUser]

Init == InitWith(MaxOps, 0, "any", {0, Limit})

store == <<docs, subjects, wms, etags, users>>

\* the clock moves on between two steps of the program
Tick(d) ==
    /\ pc = "idle"
    /\ run.ticks > 0
    /\ clock + d <= MaxClock
    /\ clock' = clock + d
    /\ run' = [run EXCEPT !.ticks = @ - 1]
    /\ UNCHANGED <<requests, store, pc, call, ret, hist, sent, rlLog, handles>>

(***************************************************************************)
(* The list / get operations                                               *)
(***************************************************************************)
AssignmentParams ==
    <<"ids", "available_after", "available_before", "burned", "hidden",
      "immediately_available_for_lessons", "immediately_available_for_review",
      "in_review", "levels", "srs_stages", "started", "subject_ids",
      "subject_types", "unlocked", "updated_after">>
ReviewStatisticParams ==
    <<"ids", "hidden", "percentages_greater_than", "percentages_less_than",
      "subject_ids", "subject_types", "updated_after">>

\* {k: local_args[k] for k in <operation>.__kwdefaults__}
Kwargs(names, given) ==
    [i \in 1 .. Len(names) |->
        IF \E a \in given : a.p = names[i]
        THEN CHOOSE a \in given : a.p = names[i]
        ELSE Arg(names[i], "none", <<>>)]

\* the arguments the model calls the operations with
NoIds == Arg("ids", "none", <<>>)
OneId == Arg("ids", "int", <<1>>)
SomeIds == Arg("ids", "list", [i \in 1 .. MaxId |-> i])
NoLevels == Arg("levels", "none", <<>>)
SomeLevels == Arg("levels", "list", <<1>>)
InReview == Arg("in_review", "bool", <<1>>)
NoUpdatedAfter == Arg("updated_after", "none", <<>>)
UpdatedAfter == Arg("updated_after", "date", <<MaxUpd>>)
NoHidden == Arg("hidden", "none", <<>>)
HiddenTrue == Arg("hidden", "bool", <<1>>)
HiddenFalse == Arg("hidden", "bool", <<0>>)
AvailableAfter == Arg("available_after", "date", <<1>>)
AvailableBefore == Arg("available_before", "date", <<2>>)
GreaterThan == Arg("percentages_greater_than", "int", <<1>>)
LessThan == Arg("percentages_less_than", "int", <<2>>)

AssignmentArgs ==
    {<<NoIds, NoLevels, NoUpdatedAfter>>, <<OneId, NoLevels, NoUpdatedAfter>>,
     <<SomeIds, NoLevels, NoUpdatedAfter>>, <<NoIds, SomeLevels, NoUpdatedAfter>>,
     <<NoIds, InReview, NoUpdatedAfter>>, <<OneId, NoLevels, UpdatedAfter>>}
ResetArgs ==
    {<<NoIds, NoUpdatedAfter>>, <<OneId, NoUpdatedAfter>>, <<SomeIds, NoUpdatedAfter>>,
     <<NoIds, UpdatedAfter>>, <<OneId, UpdatedAfter>>}
SubjectArgs == {<<NoIds, NoUpdatedAfter>>, <<OneId, NoUpdatedAfter>>}

\* lines 613-626 of _do_requests: the watermark lookup and the first URL
DoRequestsBegin(op, args, cached, cached_doc, flt, type, base_url, url_params, is_singular, can_use_cache) ==
    LET url_wo == WithParams(base_url, url_params)
        wm     == FindWatermarks(wms, url_wo)
        params == IF wm # <<>>
                  THEN Append(url_params, Frag("updated_after", "date", <<Head(wm).date>>))
                  ELSE url_params
        c      == [op |-> op, type |-> type, url |-> WithParams(base_url, params),
                   url_wo |-> url_wo, data_out |-> <<>>, cached |-> cached,
                   cached_doc |-> cached_doc, filter |-> flt,
                   is_singular |-> is_singular, can_use_cache |-> can_use_cache]
    IN
    /\ run.ops > 0
    /\ run' = [run EXCEPT !.ops = @ - 1]
    /\ pc' = "walk"
    /\ call' = c
    /\ ret' = NoRet
    /\ hist' = [NoHist EXCEPT !.local = CachedVal(c, docs), !.args = args]
    /\ UNCHANGED <<clock, requests, store, sent, rlLog, handles>>

\* _complex_request, lines 582-610
ComplexRequest(op, args, type, kw) ==
    LET p    == ParseQueryParameters(kw, type = "assignment", clock)
        sing == IsSingular(kw, p.url_params)
        url  == IF ~sing THEN Url(type, None, <<>>)
                ELSE Url(type, KwVal(kw, "ids")[1], <<>>)
        cuc  == CanUseCache(kw)
        flt  == [object |-> {type}, f |-> p.f]
    IN
    /\ pc = "idle"
    /\ DoRequestsBegin(op, args,
                       IF ~cuc THEN "none" ELSE IF sing THEN "doc" ELSE "cursor",
                       IF cuc /\ sing THEN FindOne(docs, flt) ELSE NoDoc,
                       flt, type, url, p.url_params, sing, cuc)

GetAssignments(ids, unc, ua) ==
    ComplexRequest("get_assignments", <<ids, unc, ua>>, "assignment",
                   Kwargs(AssignmentParams, {ids, unc, ua}))

\* the same operations with any of their keyword arguments given
GetAssignmentsKw(given) ==
    LET kw == Kwargs(AssignmentParams, given) IN
    ComplexRequest("get_assignments", kw, "assignment", kw)

GetReviewStatisticsKw(given) ==
    LET kw == Kwargs(ReviewStatisticParams, given) IN
    ComplexRequest("get_review_statistics", kw, "review_statistic", kw)

GetReviewStatistics(ids, ua) ==
    ComplexRequest("get_review_statistics", <<ids, ua>>, "review_statistic",
                   Kwargs(ReviewStatisticParams, {ids, ua}))

\* _ids_updated_after_request, lines 555-579
IdsUpdatedAfterRequest(op, ids, ua, type) ==
    LET sing == ids.k = "int" /\ ua.k = "none"
        up1  == IF ids.k # "none" THEN <<Frag("ids", "list", ids.v)>> ELSE <<>>
        up2  == IF ua.k # "none" THEN Append(up1, Frag("updated_after", "date", ua.v))
                ELSE up1
        flt  == [object |-> {type},
                 f |-> IF ua.k # "none"
                       THEN SetField(NoFields, "data_updated_at", Pred("gte", ua.v))
                       ELSE NoFields]
    IN
    /\ pc = "idle"
    /\ IF sing
       THEN DoRequestsBegin(op, <<ids, ua>>, "doc", FindOne(docs, KeyFilter(type, ids.v[1])),
                            KeyFilter(type, ids.v[1]), type,
                            Url(type, ids.v[1], <<>>), <<>>, TRUE, TRUE)
       ELSE IF ids.k # "none"
       THEN \* line 567: {"$in", ids} is a set display holding a list
            /\ run.ops > 0
            /\ run' = [run EXCEPT !.ops = @ - 1]
            /\ pc' = "done"
            /\ ret' = Raise(op, [exc |-> "TypeError", code |-> None], None)
            /\ hist' = [NoHist EXCEPT !.args = <<ids, ua>>]
            /\ UNCHANGED <<clock, requests, store, call, sent, rlLog, handles>>
       ELSE DoRequestsBegin(op, <<ids, ua>>, "cursor", NoDoc, flt, type, Url(type, None, <<>>),
                            up2, FALSE, TRUE)

GetResets(ids, ua) == IdsUpdatedAfterRequest("get_resets", ids, ua, "reset")

\* a walk that takes every page for the last one
WalkEndsAtOnce(resp) == TRUE

\* `while url:` is left when the page's next_url is null, lines 627 and 654
WalkEnds(resp) == ~resp.more

\* what `return data_out if is_singular else cached` gives, line 676
WalkResult(c, data_out, coll) ==
    IF c.is_singular THEN Val("list", data_out) ELSE CachedVal(c, coll)

\* the end of an operation: it hands its result to the caller
Finish(r, h) ==
    /\ pc' = "done"
    /\ call' = call
    /\ ret' = r
    /\ hist' = h

\* the caller has taken the result and goes on
Resume ==
    /\ pc = "done"
    /\ pc' = "idle"
    /\ call' = NoCall
    /\ ret' = NoRet
    /\ hist' = NoHist
    /\ sent' = [sent EXCEPT !.last = NoSend]
    /\ UNCHANGED <<clock, requests, store, run, rlLog, handles>>

\* One iteration of the while loop of _do_requests, lines 627-660, and, when
\* the page has no next_url, lines 661-676 after the loop.
DoRequestsBody(resp) ==
    LET c    == call
        cond == HasEtag(etags, Uid, c.url)
        a    == AcquireOrSleep(requests, clock)
        h1   == [hist EXCEPT !.gets = Append(@, c.url), !.got = Got(resp)]
        e2   == IF c.can_use_cache THEN SetEtag(etags, Uid, c.url, resp.lm, resp.etag)
                ELSE etags
        out  == c.data_out \o resp.items
        conv == [i \in DOMAIN out |-> ConvertDates(out[i])]
        d2   == UpsertAll(docs, c.type, out)
        one  == resp.items[1]
        d1   == UpsertItem(docs, c.type, one)
    IN
    /\ a.now <= MaxClock
    /\ clock' = a.now
    /\ requests' = a.q
    /\ sent' = Sent(sent, a.now, Send("GET", c.url, TRUE, cond))
    /\ UNCHANGED <<subjects, users, run, rlLog, handles>>
    /\ IF resp.kind = "transport" THEN
            /\ Finish(Raise(c.op, HTTPError, None), h1)
            /\ UNCHANGED <<docs, wms, etags>>
       ELSE IF resp.status >= 400 THEN
            /\ Finish(Raise(c.op, RaiseError(FALSE, resp.status), resp.status), h1)
            /\ UNCHANGED <<docs, wms, etags>>
       ELSE IF resp.status = 304 THEN
            /\ Finish(Ret(c.op, "return", "304", "", None, 304, CachedVal(c, docs)), h1)
            /\ UNCHANGED <<docs, wms, etags>>
       ELSE
            /\ Cardinality(e2) <= MaxEtags
            /\ etags' = e2
            /\ IF resp.paged /\ ~WalkEnds(resp) THEN
                    /\ pc' = "walk"
                    /\ call' = [c EXCEPT !.data_out = out, !.url = NextUrl(c.url)]
                    /\ ret' = ret
                    /\ hist' = [h1 EXCEPT !.served = Append(@, resp.items),
                                          !.more = resp.more,
                                          !.dirty = @ \cup Dirty(docs, docs, subjects,
                                                        subjects, wms, wms, etags, e2)]
                    /\ UNCHANGED <<docs, wms>>
               ELSE IF resp.paged THEN
                    /\ Len(d2) <= MaxDocs
                    /\ docs' = d2
                    /\ wms' = WriteWatermark(wms, c.url_wo, a.now)
                    /\ Finish(Ret(c.op, "return", "walked", "", None, 200,
                                  WalkResult(c, conv, d2)),
                              [h1 EXCEPT !.served = Append(@, resp.items),
                                         !.more = resp.more,
                                         !.upserted = @ \o out,
                                         !.wmWrites = @ + 1,
                                         !.dirty = @ \cup {"wms"}
                                            \cup Dirty(docs, d2, subjects, subjects,
                                                       wms, wms, etags, e2)])
               ELSE
                    /\ Len(d1) <= MaxDocs
                    /\ docs' = d1
                    /\ UNCHANGED wms
                    /\ Finish(Ret(c.op, "return", "single", "", None, 200,
                                  DocVal(ConvertDates(one))),
                              [h1 EXCEPT !.upserted = Append(@, one),
                                         !.dirty = @ \cup Dirty(docs, d1, subjects,
                                                        subjects, wms, wms, etags, e2)])

DoRequestsStep ==
    /\ pc = "walk"
    /\ \E resp \in GetResponses({call.type}, call.url, HasEtag(etags, Uid, call.url)) :
            DoRequestsBody(resp)

(***************************************************************************)
(* get_subjects, lines 285-403                                             *)
(***************************************************************************)
SubjectObjects == {"kanji", "vocabulary", "radical"}

\* lines 293-341, with types, slugs and levels left at None
GetSubjectsKw(ids, hidden, ua) ==
    LET temp == ids.v
        up0  == IF ids.k # "none" THEN <<Frag("ids", "list", temp)>> ELSE <<>>
        f0   == IF ids.k # "none" THEN SetField(NoFields, "id", Pred("in", temp))
                ELSE NoFields
        up1  == IF hidden.k # "none" THEN Append(up0, Frag("hidden", "bool", hidden.v))
                ELSE up0
        f1   == IF hidden.k # "none"
                THEN SetField(f0, "data.hidden_at",
                              IF hidden.v = <<1>> THEN Pred("ne_null", <<>>)
                              ELSE Pred("is_null", <<>>))
                ELSE f0
        up2  == IF ua.k # "none" THEN Append(up1, Frag("updated_after", "date", ua.v))
                ELSE up1
        f2   == IF ua.k # "none" THEN SetField(f1, "data_updated_at", Pred("gte", ua.v))
                ELSE f1
        flt  == [object |-> SubjectObjects, f |-> f2]
        sing == ids.k = "int" /\ Len(up2) = 1
        url_wo == IF sing THEN Url("subject", ids.v[1], <<>>)
                  ELSE Url("subject", None, up2)
        wm   == FindWatermarks(wms, url_wo)
        up3  == IF wm # <<>>
                THEN Append(up2, Frag("updated_after", "date", <<Head(wm).date>>))
                ELSE up2
        c    == [op |-> "get_subjects", type |-> "subject",
                 url |-> IF sing THEN Url("subject", ids.v[1], <<>>)
                         ELSE Url("subject", None, up3),
                 url_wo |-> url_wo, data_out |-> <<>>,
                 cached |-> IF sing THEN "doc" ELSE "cursor",
                 cached_doc |-> IF sing THEN FindOne(subjects, flt) ELSE NoDoc,
                 filter |-> flt, is_singular |-> sing, can_use_cache |-> TRUE]
    IN
    /\ pc = "idle"
    /\ run.ops > 0
    /\ run' = [run EXCEPT !.ops = @ - 1]
    /\ pc' = "subjects"
    /\ call' = c
    /\ ret' = NoRet
    /\ hist' = [NoHist EXCEPT !.local = CachedVal(c, subjects),
                               !.args = <<ids, hidden, ua>>]
    /\ UNCHANGED <<clock, requests, store, sent, rlLog, handles>>

GetSubjects(ids, ua) == GetSubjectsKw(ids, NoHidden, ua)

\* one iteration of the while loop, lines 344-388, and lines 389-403 after it
GetSubjectsBody(resp) ==
    LET c    == call
        cond == HasEtagAnyUser(etags, c.url)
        a    == AcquireOrSleep(requests, clock)
        h1   == [hist EXCEPT !.gets = Append(@, c.url), !.got = Got(resp)]
        e2   == SetEtag(etags, NoUid, c.url, resp.lm, resp.etag)
        out  == c.data_out \o resp.items
        conv == [i \in DOMAIN out |-> ConvertDates(out[i])]
        one  == resp.items[1]
        s1   == UpsertItem(subjects, one.object, one)
        s2   == UpsertEach(subjects, out)
    IN
    /\ a.now <= MaxClock
    /\ clock' = a.now
    /\ requests' = a.q
    /\ sent' = Sent(sent, a.now, Send("GET", c.url, TRUE, cond))
    /\ UNCHANGED <<docs, users, run, rlLog, handles>>
    /\ IF resp.kind = "transport" THEN
            /\ Finish(Raise(c.op, HTTPError, None), h1)
            /\ UNCHANGED <<subjects, wms, etags>>
       ELSE IF resp.status >= 400 THEN
            /\ Finish(Raise(c.op, RaiseError(FALSE, resp.status), resp.status), h1)
            /\ UNCHANGED <<subjects, wms, etags>>
       ELSE IF resp.status = 304 THEN
            /\ Finish(Ret(c.op, "return", "304", "", None, 304, CachedVal(c, subjects)), h1)
            /\ UNCHANGED <<subjects, wms, etags>>
       ELSE
            /\ Cardinality(e2) <= MaxEtags
            /\ etags' = e2
            /\ IF resp.paged /\ ~WalkEnds(resp) THEN
                    /\ pc' = "subjects"
                    /\ call' = [c EXCEPT !.data_out = out, !.url = NextUrl(c.url)]
                    /\ ret' = ret
                    /\ hist' = [h1 EXCEPT !.served = Append(@, resp.items),
                                          !.more = resp.more,
                                          !.dirty = @ \cup Dirty(docs, docs, subjects,
                                                        subjects, wms, wms, etags, e2)]
                    /\ UNCHANGED <<subjects, wms>>
               ELSE IF resp.paged THEN
                    /\ Len(s2) <= MaxDocs
                    /\ subjects' = s2
                    /\ wms' = WriteWatermark(wms, c.url_wo, a.now)
                    /\ Finish(Ret(c.op, "return", "walked", "", None, 200,
                                  Val("list", conv)),
                              [h1 EXCEPT !.served = Append(@, resp.items),
                                         !.more = resp.more,
                                         !.upserted = @ \o out,
                                         !.wmWrites = @ + 1,
                                         !.dirty = @ \cup {"wms"}
                                            \cup Dirty(docs, docs, subjects, s2,
                                                       wms, wms, etags, e2)])
               ELSE
                    /\ Len(s1) <= MaxDocs
                    /\ subjects' = s1
                    /\ UNCHANGED wms
                    /\ Finish(Ret(c.op, "return", "single", "", None, 200,
                                  DocVal(ConvertDates(one))),
                              [h1 EXCEPT !.upserted = Append(@, one),
                                         !.dirty = @ \cup Dirty(docs, docs, subjects,
                                                        s1, wms, wms, etags, e2)])

GetSubjectsStep ==
    /\ pc = "subjects"
    /\ \E resp \in GetResponses({"kanji"}, call.url, HasEtagAnyUser(etags, call.url)) :
            GetSubjectsBody(resp)

(***************************************************************************)
(* The write-through operations, get_user and get_summary: one request     *)
(***************************************************************************)
UserUrl == [type |-> "user", item |-> None, q |-> <<>>, page |-> 1]
SummaryUrl == [type |-> "summary", item |-> None, q |-> <<>>, page |-> 1]

\* every answer to a PUT or POST whose success body is one of `bodies`
WriteResponses(bodies) ==
    Failures \cup {Resp("http", 200, None, None, FALSE, b, FALSE) : b \in bodies}

\* an operation of a single step: it starts and ends here
Atomic(r, h) ==
    /\ pc = "idle"
    /\ run.ops > 0
    /\ run' = [run EXCEPT !.ops = @ - 1]
    /\ pc' = "done"
    /\ call' = NoCall
    /\ ret' = r
    /\ hist' = h

\* a denial that comes too late: the request has gone out before the raise
DeniedAfterSending(op) ==
    /\ ~CanRequest(requests, clock).ok
    /\ requests' = CanRequest(requests, clock).q
    /\ sent' = Sent(sent, clock, Send("GET", UserUrl, TRUE, FALSE))
    /\ Atomic(Raise(op, RateLimitError, None), NoHist)
    /\ UNCHANGED <<clock, store, rlLog, handles>>

\* `if not self.rate_limiter.can_request(): raise WanikaniRateLimitError()`
Denied(op) ==
    /\ ~CanRequest(requests, clock).ok
    /\ requests' = CanRequest(requests, clock).q
    /\ Atomic(Raise(op, RateLimitError, None), NoHist)
    /\ UNCHANGED <<clock, store, sent, rlLog, handles>>

\* The PUT / POST operations share their shape: can_request or raise, the
\* request, the status check with _raise_error(arg), then the store write.
\* has_status: whether _raise_error is handed the response or its status.
WriteThrough(op, method, url, has_status, resp, d2) ==
    LET r == CanRequest(requests, clock)
        h == [NoHist EXCEPT !.gets = <<url>>, !.got = Got(resp)]
    IN
    /\ r.ok
    /\ requests' = r.q
    /\ sent' = Sent(sent, clock, Send(method, url, TRUE, FALSE))
    /\ UNCHANGED <<clock, subjects, wms, etags, users, rlLog, handles>>
    /\ IF resp.kind = "transport" THEN
            /\ Atomic(Raise(op, HTTPError, None), h)
            /\ UNCHANGED docs
       ELSE IF resp.status >= 400 THEN
            /\ Atomic(Raise(op, RaiseError(has_status, resp.status), resp.status), h)
            /\ UNCHANGED docs
       ELSE
            /\ Len(d2) <= MaxDocs
            /\ docs' = d2
            /\ Atomic(Ret(op, "return", "written", "", None, 200,
                          Val("body", resp.items)),
                      [h EXCEPT !.dirty = Dirty(docs, d2, subjects, subjects,
                                                wms, wms, etags, etags)])

\* start_assignment, lines 106-130
StartAssignment(sid) ==
    \/ Denied("start_assignment")
    \/ \E resp \in WriteResponses({<<Item("assignment", sid, u)>> : u \in Upds}) :
         WriteThrough("start_assignment", "PUT", Url("assignment/start", sid, <<>>),
                       TRUE, resp,
                       IF resp.items = <<>> THEN docs
                       ELSE UpdateOne(docs, KeyFilter("assignment", sid),
                                      resp.items[1], FALSE))

\* the body of a created review: the review, then resources_updated's
\* assignment and review_statistic
ReviewBodies(aid) ==
    {<<Item("review", rid, u), Item("assignment", aid, u),
       Item("review_statistic", sid, u)>> : rid \in Ids, sid \in Ids, u \in Upds}

\* create_review, lines 150-195
CreateReview(aid) ==
    \/ Denied("create_review")
    \/ \E resp \in WriteResponses(ReviewBodies(aid)) :
         WriteThrough("create_review", "POST", Url("review", None, <<>>), TRUE, resp,
                       IF resp.items = <<>> THEN docs
                       ELSE LET d == resp.items IN
                            UpdateOne(
                              UpdateOne(InsertOne(docs, d[1]),
                                        KeyFilter("assignment", d[2].id), d[2], FALSE),
                              KeyFilter("review_statistic", d[3].id), d[3], FALSE))

\* create_study_material, lines 224-254
CreateStudyMaterial ==
    \/ Denied("create_study_material")
    \/ \E resp \in WriteResponses({<<Item("study_material", i, u)>> :
                                        i \in Ids, u \in Upds}) :
         WriteThrough("create_study_material", "POST",
                       Url("study_material", None, <<>>), TRUE, resp,
                       IF resp.items = <<>> THEN docs
                       ELSE InsertOne(docs, resp.items[1]))

\* update_study_material, lines 256-283
UpdateStudyMaterial(sid) ==
    \/ Denied("update_study_material")
    \/ \E resp \in WriteResponses({<<Item("study_material", sid, u)>> : u \in Upds}) :
         WriteThrough("update_study_material", "PUT",
                       Url("study_material", sid, <<>>), TRUE, resp,
                       IF resp.items = <<>> THEN docs
                       ELSE UpdateOne(docs, KeyFilter("study_material", sid),
                                      resp.items[1], FALSE))

\* update_user, lines 487-518: the filter {"_id": <user id>, "object": "user"}
\* matches no document of the user's collection, and there is no upsert
UpdateUser ==
    \/ Denied("update_user")
    \/ \E resp \in WriteResponses({<<Item("user", None, u)>> : u \in Upds}) :
         WriteThrough("update_user", "PUT", UserUrl, FALSE, resp, docs)

\* user_db.find_one({"tokens": {"$in": [token]}})
FindByToken(us, tok) ==
    SelectSeq(us, LAMBDA x : \E i \in DOMAIN x.tokens : x.tokens[i] = tok)

FindUserByToken(us) == FindByToken(us, Token)

\* an identity record inserted for every token, whatever the collection holds
StoreUserAnew(us, tok, uid, upd) ==
    Append(us, [id |-> uid, tokens |-> <<tok>>, upd |-> upd])

\* get_user, lines 465-483: the users collection after the account uid was
\* fetched with token tok
StoreUser(us, tok, uid, upd) ==
    LET found == SelectSeq(us, LAMBDA x : x.id = uid)
        data  == [id |-> uid, tokens |-> <<tok>>, upd |-> upd]
    IN
    IF found = <<>> THEN Append(us, data)
    ELSE IF \A i \in DOMAIN Head(found).tokens : Head(found).tokens[i] # tok
      THEN [i \in DOMAIN us |->
                IF us[i] = Head(found) THEN [us[i] EXCEPT !.tokens = Append(@, tok)]
                ELSE us[i]]
    ELSE [i \in DOMAIN us |->
                IF us[i] = Head(found) THEN [data EXCEPT !.tokens = Head(found).tokens]
                ELSE us[i]]

UserVal(us) == IF us = <<>> THEN NoVal ELSE Val("user", <<Head(us)>>)

\* get_user, lines 435-485, after can_request allowed the request
GetUserBody(resp) ==
    LET cond == HasEtag(etags, Uid, UserUrl)
        r    == CanRequest(requests, clock)
        h    == [NoHist EXCEPT !.gets = <<UserUrl>>, !.got = Got(resp),
                               !.local = UserVal(FindUserByToken(users))]
        e2   == SetEtag(etags, Uid, UserUrl, resp.lm, resp.etag)
        found == SelectSeq(users, LAMBDA x : x.id = Uid)
        data == [id |-> Uid, tokens |-> <<Token>>, upd |-> resp.items[1].upd]
        u2   == StoreUser(users, Token, Uid, resp.items[1].upd)
    IN
       /\ r.ok
       /\ requests' = r.q
       /\ sent' = Sent(sent, clock, Send("GET", UserUrl, TRUE, cond))
       /\ UNCHANGED <<clock, docs, subjects, wms, rlLog, handles>>
       /\ IF resp.kind = "transport" THEN
               /\ IF FindUserByToken(users) # <<>>
                  THEN Atomic(Ret("get_user", "return", "fallback", "", None, None,
                                  UserVal(FindUserByToken(users))), h)
                  ELSE Atomic(Raise("get_user", HTTPError, None), h)
               /\ UNCHANGED <<etags, users>>
          ELSE IF resp.status >= 400 THEN
               /\ Atomic(Raise("get_user", RaiseError(FALSE, resp.status), resp.status), h)
               /\ UNCHANGED <<etags, users>>
          ELSE IF resp.status = 304 THEN
               /\ Atomic(Ret("get_user", "return", "304", "", None, 304,
                             UserVal(FindUserByToken(users))), h)
               /\ UNCHANGED <<etags, users>>
          ELSE
               /\ Cardinality(e2) <= MaxEtags
               /\ etags' = e2
               /\ users' = u2
               /\ Atomic(Ret("get_user", "return", "single", "", None, 200,
                             IF found = <<>> THEN Val("user", <<data>>)
                             ELSE Val("user", <<Head(found)>>)),
                         [h EXCEPT !.dirty = Dirty(users, u2, subjects, subjects,
                                                   wms, wms, etags, e2)])

\* every answer to a GET of the one resource of `object`
OneResponses(object, cond) ==
    Failures
    \cup (IF cond THEN {Resp("http", 304, None, None, FALSE, <<>>, FALSE)} ELSE {})
    \cup {Resp("http", 200, hd.lm, hd.etag, FALSE, <<Item(object, None, u)>>, FALSE) :
            hd \in Headers, u \in Upds}

GetUser ==
    \/ Denied("get_user")
    \/ \E resp \in OneResponses("user", HasEtag(etags, Uid, UserUrl)) : GetUserBody(resp)

\* get_summary, lines 405-433: no rate-limiter call
GetSummaryBody(resp) ==
    LET cond == HasEtag(etags, Uid, SummaryUrl)
        rep  == FindOne(docs, ObjectFilter("report"))
        h    == [NoHist EXCEPT !.gets = <<SummaryUrl>>, !.got = Got(resp),
                               !.local = DocVal(rep)]
        e2   == SetEtag(etags, Uid, SummaryUrl, resp.lm, resp.etag)
        d2   == UpdateOne(docs, ObjectFilter("report"), resp.items[1], TRUE)
    IN
    /\ sent' = Sent(sent, clock, Send("GET", SummaryUrl, FALSE, cond))
    /\ UNCHANGED <<clock, requests, subjects, wms, users, rlLog, handles>>
    /\ IF resp.kind = "transport" THEN
            /\ IF rep # NoDoc
               THEN Atomic(Ret("get_summary", "return", "fallback", "", None, None,
                               DocVal(rep)), h)
               ELSE Atomic(Raise("get_summary", HTTPError, None), h)
            /\ UNCHANGED <<docs, etags>>
       ELSE IF resp.status >= 400 THEN
            /\ Atomic(Raise("get_summary", RaiseError(FALSE, resp.status), resp.status), h)
            /\ UNCHANGED <<docs, etags>>
       ELSE IF resp.status = 304 THEN
            /\ Atomic(Ret("get_summary", "return", "304", "", None, 304, DocVal(rep)), h)
            /\ UNCHANGED <<docs, etags>>
       ELSE
            /\ Cardinality(e2) <= MaxEtags
            /\ Len(d2) <= MaxDocs
            /\ etags' = e2
            /\ docs' = d2
            /\ Atomic(Ret("get_summary", "return", "single", "", None, 200,
                          Val("body", resp.items)),
                      [h EXCEPT !.dirty = Dirty(docs, d2, subjects, subjects,
                                                wms, wms, etags, e2)])

GetSummary ==
    \E resp \in OneResponses("report", HasEtag(etags, Uid, SummaryUrl)) :
        GetSummaryBody(resp)

(***************************************************************************)
(* The client: any operations, in any order, one at a time                 *)
(***************************************************************************)
Next ==
    \/ \E a \in AssignmentArgs : GetAssignments(a[1], a[2], a[3])
    \/ \E a \in ResetArgs : GetResets(a[1], a[2])
    \/ \E a \in SubjectArgs : GetSubjects(a[1], a[2])
    \/ DoRequestsStep
    \/ GetSubjectsStep
    \/ \E sid \in Ids : StartAssignment(sid)
    \/ \E aid \in Ids : CreateReview(aid)
    \/ CreateStudyMaterial
    \/ \E sid \in Ids : UpdateStudyMaterial(sid)
    \/ UpdateUser
    \/ GetUser
    \/ GetSummary
    \/ Resume

Spec == Init /\ [][Next]_vars

(***************************************************************************)
(* A client that only synchronises the whole assignment list, again and    *)
(* again, against a steady remote                                          *)
(***************************************************************************)
InitSync == InitWith(MaxSyncs, MaxTicks, "steady", {0})

NextSync ==
    \/ Tick(1)
    \/ GetAssignments(NoIds, NoLevels, NoUpdatedAfter)
    \/ DoRequestsStep
    \/ Resume

SpecSync == InitSync /\ [][NextSync]_vars

(***************************************************************************)
(* The rate limiter on its own: can_request called directly, at any times  *)
(***************************************************************************)
WaitSteps == {5, Window + 1}

Wait(d) ==
    /\ clock + d <= MaxClockRL
    /\ clock' = clock + d
    /\ UNCHANGED <<requests, store, pc, call, ret, hist, sent, run, rlLog, handles>>

\* rate_limiter.can_request(), lines 44-51; rlLog keeps the time and the
\* result of each call
CanRequestCall ==
    /\ Len(rlLog) < MaxCalls
    /\ LET r == CanRequest(requests, clock)
       IN /\ requests' = r.q
          /\ rlLog' = Append(rlLog, [t |-> clock, ok |-> r.ok])
    /\ UNCHANGED <<clock, store, pc, call, ret, hist, sent, run, handles>>

InitRL == InitWith(0, 0, "any", {0})

NextRL ==
    \/ \E d \in WaitSteps : Wait(d)
    \/ CanRequestCall

SpecRL == InitRL /\ [][NextRL]_vars

(***************************************************************************)
(* UserHandle(token), lines 73-84: clients built with either token of one  *)
(* remote account, on an empty users collection                            *)
(***************************************************************************)
\* the token is known: self._user is the record found, no request is made
InitKnown(tok) ==
    /\ FindByToken(users, tok) # <<>>
    /\ handles' = [handles EXCEPT ![tok] = Head(FindByToken(users, tok)).id]
    /\ Atomic(Ret("__init__", "return", "known", "", None, None,
                  UserVal(FindByToken(users, tok))), NoHist)
    /\ UNCHANGED <<clock, requests, store, sent, rlLog>>

\* the token is new: self._user = self.get_user(), lines 435-485, called
\* before _user is set, so without validators (line 526)
InitFetched(tok, resp) ==
    LET r  == CanRequest(requests, clock)
        h  == [NoHist EXCEPT !.gets = <<UserUrl>>, !.got = Got(resp)]
        e2 == SetEtag(etags, Uid, UserUrl, resp.lm, resp.etag)
        u2 == StoreUser(users, tok, Uid, resp.items[1].upd)
    IN
    /\ FindByToken(users, tok) = <<>>
    /\ r.ok
    /\ requests' = r.q
    /\ sent' = Sent(sent, clock, Send("GET", UserUrl, TRUE, FALSE))
    /\ UNCHANGED <<clock, docs, subjects, wms, rlLog>>
    /\ IF resp.kind = "transport" THEN
            /\ Atomic(Raise("__init__", HTTPError, None), h)
            /\ UNCHANGED <<etags, users, handles>>
       ELSE IF resp.status >= 400 THEN
            /\ Atomic(Raise("__init__", RaiseError(FALSE, resp.status), resp.status), h)
            /\ UNCHANGED <<etags, users, handles>>
       ELSE
            /\ etags' = e2
            /\ users' = u2
            /\ handles' = [handles EXCEPT ![tok] = Uid]
            /\ Atomic(Ret("__init__", "return", "single", "", None, 200,
                          Val("user", SelectSeq(u2, LAMBDA x : x.id = Uid))),
                      [h EXCEPT !.dirty = Dirty(users, u2, subjects, subjects,
                                                wms, wms, etags, e2)])

NewUserHandle(tok) ==
    \/ InitKnown(tok)
    \/ FindByToken(users, tok) = <<>> /\ Denied("__init__")
    \/ \E resp \in OneResponses("user", FALSE) : InitFetched(tok, resp)

InitUsers ==
    /\ clock = 0
    /\ requests \in {[i \in 1 .. n |-> 0] : n \in {0, Limit}}
    /\ docs = <<>> /\ subjects = <<>> /\ wms = <<>> /\ etags = {}
    /\ users = <<>>
    /\ pc = "idle" /\ call = NoCall /\ ret = NoRet /\ hist = NoHist
    /\ sent = [last |-> NoSend, times |-> <<>>]
    /\ run = [ops |-> MaxBuilds, ticks |-> MaxTicks, remote |-> "any"]
    /\ rlLog = <<>>
    /\ handles = [t \in Tokens |-> NoUser]

NextUsers ==
    \/ \E tok \in Tokens : NewUserHandle(tok)
    \/ Tick(Window + 1)
    \/ Resume

SpecUsers == InitUsers /\ [][NextUsers]_vars

(***************************************************************************)
(* A client that makes list requests with any few of their filters         *)
(***************************************************************************)
AssignmentPool ==
    {OneId, SomeIds, HiddenTrue, HiddenFalse, AvailableAfter, AvailableBefore,
     UpdatedAfter, InReview, SomeLevels}
StatisticPool == {OneId, HiddenTrue, HiddenFalse, GreaterThan, LessThan, UpdatedAfter}

\* up to MaxGiven arguments, one value per parameter
Queries(pool) ==
    {g \in SUBSET pool : Cardinality(g) <= MaxGiven /\ \A a, b \in g : a.p = b.p => a = b}

InitQuery == InitWith(MaxQueries, 0, "steady", {0})

NextQuery ==
    \/ \E g \in Queries(AssignmentPool) : GetAssignmentsKw(g)
    \/ \E g \in Queries(StatisticPool) : GetReviewStatisticsKw(g)
    \/ \E ids \in {NoIds, OneId}, hidden \in {NoHidden, HiddenTrue, HiddenFalse},
          ua \in {NoUpdatedAfter, UpdatedAfter} : GetSubjectsKw(ids, hidden, ua)
    \/ DoRequestsStep
    \/ GetSubjectsStep
    \/ Resume

SpecQuery == InitQuery /\ [][NextQuery]_vars

(***************************************************************************)
(* A client that synchronises two lists in turn, the whole assignment list *)
(* and the whole reset list, against a steady remote                       *)
(***************************************************************************)
InitPages == InitWith(MaxWalks, MaxTicks, "steady", {0})

NextPages ==
    \/ Tick(1)
    \/ GetAssignments(NoIds, NoLevels, NoUpdatedAfter)
    \/ GetResets(NoIds, NoUpdatedAfter)
    \/ DoRequestsStep
    \/ Resume

SpecPages == InitPages /\ [][NextPages]_vars

(***************************************************************************)
(* A client whose list walks are carried on: the thread that runs a walk   *)
(* goes on to its next iteration, every request is answered or raises, and *)
(* the caller takes each result                                            *)
(***************************************************************************)
InitWalk == InitWith(MaxOps, 0, "any", {0, Limit})

NextWalk ==
    \/ GetAssignments(NoIds, NoLevels, NoUpdatedAfter)
    \/ GetSubjects(NoIds, NoUpdatedAfter)
    \/ DoRequestsStep
    \/ GetSubjectsStep
    \/ Resume

SpecWalk ==
    InitWalk /\ [][NextWalk]_vars /\ WF_vars(DoRequestsStep) /\ WF_vars(GetSubjectsStep)

(***************************************************************************)
(* Properties                                                              *)
(***************************************************************************)
FetchOps == {"get_assignments", "get_review_statistics", "get_resets", "get_subjects"}

\* the collection a fetch operation caches into
Cache == IF ret.op = "get_subjects" THEN subjects ELSE docs

RECURSIVE Flatten(_)
Flatten(pages) == IF pages = <<>> THEN <<>> ELSE Head(pages) \o Flatten(Tail(pages))

Parsed(items) == [i \in DOMAIN items |-> [items[i] EXCEPT !.dates = "parsed"]]

Stored(item, coll) ==
    \E i \in DOMAIN coll :
        coll[i].object = item.object /\ coll[i].id = item.id /\ coll[i].upd = item.upd

\* every item has its document in the collection, holding what the last item
\* of that identity brought
AllStored(items, coll) ==
    \A i \in DOMAIN items :
        \/ Stored(items[i], coll)
        \/ \E k \in (i + 1) .. Len(items) :
                items[k].object = items[i].object /\ items[k].id = items[i].id

\* ids is one integer and no other argument is given
SingularArgs(args) ==
    /\ args # <<>>
    /\ args[1].p = "ids" /\ args[1].k = "int"
    /\ \A i \in 2 .. Len(args) : args[i].k = "none"

CacheInvalidating ==
    {"levels", "immediately_available_for_lessons",
     "immediately_available_for_review", "in_review"}

Cacheable(args) == \A i \in DOMAIN args : args[i].k = "none" \/ args[i].p \notin CacheInvalidating

\* the last page the remote served had no next_url, and every request of the
\* operation was served a page
WalkComplete ==
    /\ hist.served # <<>>
    /\ ~hist.more
    /\ Len(hist.gets) = Len(hist.served)

\* C1: a fetch without cache-invalidating parameters that is answered 304
\* returns the local result computed before its first request and leaves
\* documents, validators and watermarks as they were before the call.
C1_NotModifiedLeavesStore ==
    (pc = "done" /\ ret.op \in FetchOps /\ ret.status = 304 /\ Cacheable(hist.args))
        => (ret.kind = "return" /\ ret.val = hist.local /\ hist.dirty = {})

\* C2: a non-singular list request whose page walk completes returns the
\* accumulated list of all items of all pages, in page order, whatever its
\* filters are.
C2_WalkReturnsAccumulated ==
    (pc = "done" /\ ret.op \in FetchOps /\ ret.kind = "return" /\ WalkComplete
        /\ ~SingularArgs(hist.args))
        => (ret.val.t = "list" /\ ret.val.docs = Parsed(Flatten(hist.served)))

\* C3: the watermark is written during a call if and only if every page of
\* the call's walk was fetched and all of its items were upserted; a call
\* that fails on a later page leaves the watermark as it was.
C3_WatermarkIffWalkPersisted ==
    [][ /\ (wms' # wms \/ hist'.wmWrites > hist.wmWrites)
            => /\ pc' = "done" /\ ret'.kind = "return"
               /\ WalkComplete'
               /\ hist'.upserted = Flatten(hist'.served)
               /\ AllStored(hist'.upserted, Cache')
               /\ hist'.wmWrites = 1
        /\ (pc' = "done" /\ ret'.op \in FetchOps /\ ret'.kind = "return" /\ WalkComplete')
            => (hist'.wmWrites = 1 /\ wms' # <<>>)
        /\ (pc' = "done" /\ ret'.kind = "raise") => wms' = wms
      ]_vars

C3_Witness ==
    /\ pc = "done" /\ ret.op \in FetchOps /\ ret.kind = "raise"
    /\ Len(hist.gets) = 2 /\ Len(hist.served) = 1
    /\ wms # <<>> /\ hist.wmWrites = 0

\* C4: no more than 3 requests are sent within any 60 seconds, requests sent
\* after sleep_until_can_request returned included.
C4_ThreePerWindow ==
    Len(sent.times) = 4 => sent.times[4] - sent.times[1] >= 60

\* C5: every request is sent after the operation consulted the rate limiter.
C5_LimiterBeforeEveryRequest ==
    sent.last # NoSend => sent.last.checked

\* C6: can_request drops from the front every timestamp older than 60
\* seconds, then appends now and returns true if fewer than 3 remain, else
\* returns false and appends nothing; so 4 calls within 10 seconds give
\* true, true, true, false and a call 61 seconds later gives true.
C6_CanRequest ==
    /\ [][ Len(rlLog') = Len(rlLog) + 1 =>
            LET kept == SelectSeq(requests, LAMBDA t : clock - t <= 60)
                ok   == rlLog'[Len(rlLog')].ok
            IN IF Len(kept) < 3
               THEN ok /\ requests' = Append(kept, clock)
               ELSE ~ok /\ requests' = kept ]_vars
    /\ [](Len(rlLog) >= 4 /\ rlLog[4].t - rlLog[1].t <= 10
            => /\ rlLog[1].ok /\ rlLog[2].ok /\ rlLog[3].ok /\ ~rlLog[4].ok
               /\ (Len(rlLog) >= 5 /\ rlLog[5].t - rlLog[4].t >= 61) => rlLog[5].ok)

C6_Witness ==
    /\ Len(rlLog) = 5
    /\ rlLog[4].t - rlLog[1].t <= 10
    /\ rlLog[5].t - rlLog[4].t >= 61
    /\ ~rlLog[4].ok /\ rlLog[5].ok

\* the pages 1 .. n of the list a walk started on, in order
InPageOrder(gets) ==
    \A k \in DOMAIN gets : gets[k] = [gets[1] EXCEPT !.page = k]

\* C7: a list request whose result spans N pages sends exactly N GETs,
\* follows each next_url once and in order, upserts every returned item once,
\* after the last page, and writes the watermark once.
C7_WalkEveryPageOnce ==
    /\ (pc \in {"walk", "subjects"})
        => /\ InPageOrder(hist.gets)
           /\ call.url.page = Len(hist.gets) + 1
           /\ hist.upserted = <<>> /\ hist.wmWrites = 0
           /\ hist.dirty \subseteq {"etags"}
    /\ (pc = "done" /\ ret.op \in FetchOps /\ ret.kind = "return" /\ WalkComplete)
        => /\ InPageOrder(hist.gets)
           /\ hist.upserted = Flatten(hist.served)
           /\ AllStored(hist.upserted, Cache)
           /\ hist.wmWrites = 1

C7_Witness ==
    /\ pc = "done" /\ ret.op \in FetchOps /\ ret.kind = "return" /\ WalkComplete
    /\ Len(hist.gets) = 2 /\ Len(hist.upserted) = 2

\* C8: a response with status 429 raises WanikaniRateLimitError, 401 or 403
\* raise WanikaniInvalidTokenError, any other status >= 400 raises
\* WanikaniRequestError carrying the status; the request is not sent again.
C8_ErrorClasses ==
    (pc = "done" /\ ret.status >= 400)
        => /\ ret.kind = "raise"
           /\ ret.status = 429 => ret.exc = "WanikaniRateLimitError"
           /\ ret.status \in {401, 403} => ret.exc = "WanikaniInvalidTokenError"
           /\ ret.status \notin {401, 403, 429}
                => (ret.exc = "WanikaniRequestError" /\ ret.code = ret.status)
           /\ \A i, j \in DOMAIN hist.gets : hist.gets[i] = hist.gets[j] => i = j

\* C9: after create_review succeeded the cache holds the review, the
\* assignment and the review_statistic of the response, whether or not the
\* last two were cached before.
C9_ReviewPersistsThree ==
    (pc = "done" /\ ret.op = "create_review" /\ ret.kind = "return")
        => \A k \in DOMAIN ret.val.docs : Stored(ret.val.docs[k], docs)

\* C10: a lookup by one integer id and nothing else sends its GET to the
\* item URL .../<type>s/<id> itself.
C10_SingularUrl ==
    (ret.op \in FetchOps \/ call.op \in FetchOps)
      /\ SingularArgs(hist.args) /\ sent.last # NoSend
        => /\ sent.last.url.item = hist.args[1].v[1]
           /\ sent.last.url.q = <<>>

\* an operation has compiled its arguments and has not sent anything yet
Compiled == pc \in {"walk", "subjects"} /\ hist.gets = <<>>

\* C11: a request is singular if and only if ids is one integer and every
\* other filter is absent or null; a scalar ids with any other filter is a
\* list request: the list endpoint and a filtered scan of the cache.
C11_SingularIffOnlyScalarIds ==
    Compiled
        => /\ call.is_singular <=> SingularArgs(hist.args)
           /\ ~SingularArgs(hist.args) => (call.url.item = None /\ call.cached # "doc")

\* C13: watermarks are kept one per canonical URL: writing the watermark of
\* one URL leaves a watermark record for every other URL that had one, so the
\* next request for a URL finds its own watermark.
C13_WatermarkPerUrl ==
    [][\A i \in DOMAIN wms : \E j \in DOMAIN wms' : wms'[j].url = wms[i].url]_vars

C15_FailedWalkRepeatable ==
    (pc = "done" /\ ret.op \in FetchOps /\ ret.kind = "raise" /\ "etags" \in hist.dirty)
        => AllStored(Flatten(hist.served), Cache)

\* C16: a request with a cache-invalidating parameter always goes to the
\* network, and every item the remote returns for it is upserted.
C16_InvalidatingStillPersisted ==
    (pc = "done" /\ ret.op \in FetchOps /\ ~Cacheable(hist.args))
        => /\ hist.gets # <<>>
           /\ sent.last.method = "GET" /\ sent.last.url = hist.gets[Len(hist.gets)]
           /\ ret.kind = "return"
                => /\ hist.got.status = 200 /\ WalkComplete
                   /\ hist.upserted = Flatten(hist.served)
                   /\ \A i \in DOMAIN hist.upserted : 
                        \E j \in DOMAIN docs :
                            /\ docs[j].object = hist.upserted[i].object
                            /\ docs[j].id = hist.upserted[i].id

C16_Witness ==
    /\ pc = "done" /\ ret.op \in FetchOps /\ ~Cacheable(hist.args)
    /\ ret.kind = "return" /\ Len(hist.upserted) = 2
    /\ Len(docs) = 2

\* C17: every resource document in the store has its dates parsed, after
\* fetches and after the write-through operations alike.
C17_DatesParsed ==
    /\ \A i \in DOMAIN docs : docs[i].object # "report" => docs[i].dates = "parsed"
    /\ \A i \in DOMAIN subjects : subjects[i].dates = "parsed"

\* C18: when the transport raises during a read operation, the operation
\* returns the cached value if there is one, and the error propagates if
\* there is none.
C18_TransportFallback ==
    (pc = "done" /\ hist.got.kind = "transport"
        /\ ret.op \in FetchOps \cup {"get_user", "get_summary"})
        => IF hist.local.docs # <<>>
           THEN ret.kind = "return" /\ ret.val.docs = hist.local.docs
           ELSE ret.kind = "raise" /\ ret.exc = "HTTPError"

\* the identity records of the remote account
Identities == SelectSeq(users, LAMBDA x : x.id = Uid)

\* C12: once a client has been built with each of two tokens of one account,
\* the users collection holds one identity record for the account, with both
\* tokens, and both clients use the cache collection of that account.
C12_OneIdentityTwoTokens ==
    /\ Len(Identities) <= 1
    /\ (\A t \in Tokens : handles[t] # NoUser)
        => /\ Len(Identities) = 1
           /\ \A t \in Tokens : \E i \in DOMAIN Identities[1].tokens :
                                    Identities[1].tokens[i] = t
           /\ \A t \in Tokens : handles[t] = Identities[1].id

C12_Witness ==
    /\ \A t \in Tokens : handles[t] # NoUser
    /\ Len(users) = 1 /\ Len(users[1].tokens) = 2

\* the argument given for parameter p, or the absent one
ArgOf(args, p) ==
    IF \E i \in DOMAIN args : args[i].p = p
    THEN args[CHOOSE i \in DOMAIN args : args[i].p = p]
    ELSE Arg(p, "none", <<>>)

FieldIs(f, k, pred) == k \in DOMAIN f /\ f[k] = pred

\* C19: a boolean filter compiles to the fragment <param>=true|false; for
\* assignments its local filter is not-null (true) or null (false) on
\* data.<param>_at, for every other resource type equality on data.<param>.
C19_BooleanFilters ==
    Compiled =>
        \A i \in DOMAIN hist.args :
            LET a == hist.args[i] IN
            (a.k = "bool" /\ a.p \notin CacheInvalidating)
                => /\ \E j \in DOMAIN call.url_wo.q :
                            call.url_wo.q[j] = [p |-> a.p, k |-> "bool", v |-> a.v]
                   /\ IF call.type = "assignment"
                      THEN FieldIs(call.filter.f, "data." \o a.p \o "_at",
                                   IF a.v = <<1>> THEN [op |-> "ne_null", args |-> <<>>]
                                   ELSE [op |-> "is_null", args |-> <<>>])
                      ELSE FieldIs(call.filter.f, "data." \o a.p,
                                   [op |-> "eq", args |-> a.v])

\* the filter on field k holds exactly the bounds lo and hi that were given
BoundsAsGiven(f, k, lo, hi, both, lower, upper) ==
    IF lo.k # "none" /\ hi.k # "none"
      THEN FieldIs(f, k, [op |-> both, args |-> lo.v \o hi.v])
    ELSE IF lo.k # "none" THEN FieldIs(f, k, [op |-> lower, args |-> lo.v])
    ELSE IF hi.k # "none" THEN FieldIs(f, k, [op |-> upper, args |-> hi.v])
    ELSE TRUE

\* C20: for available_after / available_before and for
\* percentages_greater_than / percentages_less_than the local filter holds
\* exactly the bounds given: one range with both, or the one bound alone,
\* and no bound that is null.
C20_PairedBounds ==
    (Compiled /\ call.op \in {"get_assignments", "get_review_statistics"})
        => /\ BoundsAsGiven(call.filter.f, "data.available_at",
                            ArgOf(hist.args, "available_after"),
                            ArgOf(hist.args, "available_before"),
                            "gte_lte", "gte", "lte")
           /\ BoundsAsGiven(call.filter.f, "data.percentage_correct",
                            ArgOf(hist.args, "percentages_greater_than"),
                            ArgOf(hist.args, "percentages_less_than"),
                            "gt_lt", "gt", "lt")

\* the names of a sequence of arguments or of fragments, in order
Names(s) == [i \in DOMAIN s |-> s[i].p]

\* the arguments whose value is not None, in the order they were passed
NonNull(args) == SelectSeq(args, LAMBDA a : a.k # "none")

\* C21: query compilation emits exactly one fragment for every parameter
\* whose value is not null, in the order of the parameters, and none for a
\* null one; percentages_greater_than and percentages_less_than included.
C21_FragmentPerParameter ==
    (Compiled /\ call.op \in {"get_assignments", "get_review_statistics"})
        => Names(call.url_wo.q) = Names(NonNull(hist.args))

\* the operations that raise when the limiter has no slot
RaisingOps ==
    {"start_assignment", "create_review", "create_study_material",
     "update_study_material", "update_user", "get_user"}

\* the limiter holds Limit requests of the last Window seconds
NoSlot == Cardinality({i \in DOMAIN requests : clock - requests[i] <= Window}) >= Limit

\* C22: when the limiter has no slot, start_assignment, create_review,
\* create_study_material, update_study_material, update_user and get_user
\* raise WanikaniRateLimitError, send no request and change no collection.
C22_DeniedRaisesUnsent ==
    [][(pc = "idle" /\ pc' = "done" /\ ret'.op \in RaisingOps /\ NoSlot)
            => /\ ret'.kind = "raise" /\ ret'.exc = "WanikaniRateLimitError"
               /\ sent' = sent
               /\ store' = store]_vars

C22_Witness ==
    /\ pc = "done" /\ ret.op = "get_user"
    /\ ret.kind = "raise" /\ ret.exc = "WanikaniRateLimitError"
    /\ Len(requests) = Limit /\ sent.times = <<>>

\* C23: in a page walk only the first request carries If-Modified-Since /
\* If-None-Match; the requests for the following next_url pages carry none,
\* so that no page after the first is answered with 304.
C23_ValidatorsOnFirstPageOnly ==
    /\ (sent.last # NoSend /\ sent.last.url.page > 1) => ~sent.last.cond
    /\ (call.op \in FetchOps \/ ret.op \in FetchOps) /\ hist.got.status = 304
            => Len(hist.gets) = 1

HasParam(url, p) == \E i \in DOMAIN url.q : url.q[i].p = p

\* C24: the canonical URL that keys a watermark never contains an
\* updated_after parameter, also when the caller supplies updated_after:
\* neither the key a list request looks its watermark up by, nor the key of
\* a watermark record.
C24_WatermarkKeyWithoutUpdatedAfter ==
    /\ pc \in {"walk", "subjects"} => ~HasParam(call.url_wo, "updated_after")
    /\ \A i \in DOMAIN wms : ~HasParam(wms[i].url, "updated_after")

\* C25: a list request for a simple resource with ids given as a list, or
\* with one id together with updated_after, sends the fragment
\* ids=<comma-joined ids>, filters the cache by id being one of them, and
\* ends without an internal error.
C25_SimpleListByIds ==
    (pc = "done" /\ ret.op = "get_resets"
        /\ (hist.args[1].k = "list" \/ (hist.args[1].k = "int" /\ hist.args[2].k # "none")))
        => /\ ~(ret.kind = "raise" /\ ret.exc = "TypeError")
           /\ hist.gets # <<>>
           /\ \E i \in DOMAIN hist.gets[1].q :
                hist.gets[1].q[i] = [p |-> "ids", k |-> "list", v |-> hist.args[1].v]
           /\ FieldIs(call.filter.f, "id", [op |-> "in", args |-> hist.args[1].v])

OnePerKey(coll) ==
    \A i, j \in DOMAIN coll :
        (coll[i].object = coll[j].object /\ coll[i].id = coll[j].id) => i = j

\* C26: after any fetches and write-through operations the cache holds at
\* most one document per (resource type, id): an item that is already
\* cached overwrites its document instead of adding a second one.
C26_OneDocumentPerKey == OnePerKey(docs) /\ OnePerKey(subjects)

\* the instant of the first request of the operation that has just ended
FirstReadAt == sent.times[Len(sent.times) - Len(hist.gets) + 1]

\* C27: incremental sync loses no remote update: the watermark a walk writes
\* is never later than the instant at which that walk read the remote data,
\* so that an item modified while the walk is in progress is returned by the
\* next request for the same canonical URL.
C27_WatermarkNotAfterRead ==
    (pc = "done" /\ ret.op \in FetchOps /\ ret.kind = "return" /\ hist.wmWrites > 0)
        => \A i \in DOMAIN wms :
                wms[i].url = call.url_wo => wms[i].date <= FirstReadAt

Walking == pc \in {"walk", "subjects"}

\* C28: a page walk terminates: with the remote's result a finite chain of
\* pages, _do_requests and get_subjects return or raise after finitely many
\* requests (at most one per page of the chain), every sleep of the rate
\* limiter having ended.
C28_WalkTerminates ==
    /\ [](Len(hist.gets) <= MaxPages)
    /\ Walking ~> (pc = "done")

C28_Witness ==
    /\ pc = "done" /\ ret.op \in {"get_assignments", "get_subjects"}
    /\ ret.kind = "return" /\ Len(hist.gets) = MaxPages /\ WalkComplete
    /\ clock >= Window

====
